---- MODULE Spec2Model ----
(***************************************************************************)
(* Model of the zcash-totem API server (src/server.js): the price cache    *)
(* with single-flight refresh (getCachedPriceData), the value-pool          *)
(* reconciler (extractValuePools) and the /api/status handler.             *)
(*                                                                         *)
(* JavaScript values are records tagged with their type, so that the       *)
(* coercions the code relies on (truthiness, ??, ?., Number(), isFinite)   *)
(* are computed rather than assumed.                                       *)
(***************************************************************************)
EXTENDS Integers, Sequences, FiniteSets, TLC

(***************************************************************************)
(* JavaScript values                                                       *)
(***************************************************************************)
Undef == [t |-> "undefined"]
Null == [t |-> "null"]
Num(n) == [t |-> "number", v |-> n]
NaN == [t |-> "NaN"]
PosInf == [t |-> "Infinity"]
NegInf == [t |-> "-Infinity"]
Str(s) == [t |-> "string", s |-> s]
Bool(b) == [t |-> "boolean", b |-> b]
Arr(items) == [t |-> "array", items |-> items]
Obj(fields) == [t |-> "object", fields |-> fields]

\* typeof v === "number" (NaN and the infinities are numbers)
IsNumber(v) == v.t \in {"number", "NaN", "Infinity", "-Infinity"}

\* Number.isFinite(v): false for every non-number, no coercion
IsFinite(v) == v.t = "number"

\* v == null, the test behind ?? and ?.
IsNullish(v) == v.t \in {"undefined", "null"}

\* a ?? b
Coalesce(a, b) == IF IsNullish(a) THEN b ELSE a

\* ToBoolean(v): what `if (v)`, `v && ...` and `!v` test
Truthy(v) ==
  CASE v.t \in {"undefined", "null", "NaN"} -> FALSE
    [] v.t = "number" -> v.v # 0
    [] v.t = "string" -> v.s # ""
    [] v.t = "boolean" -> v.b
    [] OTHER -> TRUE

\* o?.k : undefined for null, undefined and every value without the property
OptGet(o, k) ==
  IF o.t = "object" /\ k \in DOMAIN o.fields THEN o.fields[k] ELSE Undef

\* The strings the model's payloads use, with the number Number() reads in each
StringToNumber(s) ==
  CASE s = "" -> Num(0)
    [] s = "7" -> Num(7)
    [] s = "Infinity" -> PosInf
    [] OTHER -> NaN

\* Number(v)
ToNumber(v) ==
  CASE IsNumber(v) -> v
    [] v.t = "undefined" -> NaN
    [] v.t = "null" -> Num(0)
    [] v.t = "boolean" -> IF v.b THEN Num(1) ELSE Num(0)
    [] v.t = "string" -> StringToNumber(v.s)
    [] v.t = "array" /\ v.items = <<>> -> Num(0)
    [] OTHER -> NaN

\* a + b on numbers
JsAdd(a, b) ==
  CASE a.t = "NaN" \/ b.t = "NaN" -> NaN
    [] a.t = "number" /\ b.t = "number" -> Num(a.v + b.v)
    [] a.t = "number" -> b
    [] b.t = "number" -> a
    [] a = b -> a
    [] OTHER -> NaN

\* -a on numbers
JsNeg(a) ==
  CASE a.t = "number" -> Num(0 - a.v)
    [] a.t = "Infinity" -> NegInf
    [] a.t = "-Infinity" -> PosInf
    [] OTHER -> NaN

\* a - b on numbers
JsSub(a, b) == JsAdd(a, JsNeg(b))

\* a > 0 and a <= 0 on numbers (both false for NaN)
JsGtZero(a) == (a.t = "number" /\ a.v > 0) \/ a.t = "Infinity"
JsLeZero(a) == (a.t = "number" /\ a.v <= 0) \/ a.t = "-Infinity"

sanitizeNumber(value) ==
  IF IsNullish(value) THEN Null
  ELSE LET num == IF IsNumber(value) THEN value ELSE ToNumber(value)
       IN IF IsFinite(num) THEN num ELSE Null

\* JSON.parse(s) on the response bodies the model's upstreams send as text:
\* [ok |-> FALSE] when the text is not JSON and JSON.parse throws
JsonParse(s) ==
  CASE s = "null" -> [ok |-> TRUE, value |-> Null]
    [] s = "0" -> [ok |-> TRUE, value |-> Num(0)]
    [] s = "[]" -> [ok |-> TRUE, value |-> Arr(<<>>)]
    [] s = "{}" -> [ok |-> TRUE, value |-> Obj(<<>>)]
    [] OTHER -> [ok |-> FALSE]

normalizeJSON(value) ==
  IF value.t = "string"
  THEN LET parsed == JsonParse(value.s)
       IN IF parsed.ok THEN parsed.value ELSE value
  ELSE value

(***************************************************************************)
(* extractValuePools (the value-pool reconciler)                           *)
(***************************************************************************)
\* A call's outcome: the value it returns, or the exception it raises
Return(v) == [threw |-> FALSE, value |-> v]
Throw == [threw |-> TRUE]

\* vp.find((p) => p.id === id) from index i on: reading p.id of a null or
\* undefined entry raises a TypeError, an entry of any other type without a
\* matching id is passed over, and no match gives undefined
RECURSIVE FindFrom(_, _, _)
FindFrom(vp, id, i) ==
  IF i > Len(vp) THEN Return(Undef)
  ELSE IF IsNullish(vp[i]) THEN Throw
  ELSE IF OptGet(vp[i], "id") = Str(id) THEN Return(vp[i])
  ELSE FindFrom(vp, id, i + 1)

\* const find = (id) => Number(vp.find(...)?.chainValue ?? 0)
find(vp, id) ==
  LET hit == FindFrom(vp, id, 1)
  IN IF hit.threw THEN Throw
     ELSE Return(ToNumber(Coalesce(OptGet(hit.value, "chainValue"), Num(0))))

\* Array.isArray(info?.valuePools) ? info.valuePools : []
PoolRecords(info) ==
  LET vp == OptGet(info, "valuePools")
  IN IF vp.t = "array" THEN vp.items ELSE <<>>

\* Variant of TotalChain that takes every finite circulatingSupply, also 0
\* and negative ones
TotalChain_AnyFiniteSupply(circulatingSupply, totalFromInfo) ==
  IF IsFinite(circulatingSupply) THEN circulatingSupply ELSE totalFromInfo

\* totalChain: circulatingSupply when it is a finite number > 0, else the sum
TotalChain(circulatingSupply, totalFromInfo) ==
  IF IsFinite(circulatingSupply) /\ JsGtZero(circulatingSupply)
  THEN circulatingSupply
  ELSE totalFromInfo

\* Variant of InferTransparent that leaves the lockbox out of the subtraction
InferTransparent_ForgetsLockbox(transparent, shielded, lockbox, totalChain) ==
  LET inferred == JsSub(totalChain, shielded)
      t1 == IF (~Truthy(transparent) \/ JsLeZero(transparent)) /\ IsFinite(totalChain)
               /\ IsFinite(inferred) /\ JsGtZero(inferred)
            THEN inferred
            ELSE transparent
  IN Coalesce(sanitizeNumber(t1), Num(0))

\* The inference rule and the final sanitize step, on the extracted transparent
InferTransparent(transparent, shielded, lockbox, totalChain) ==
  LET inferred == JsSub(JsSub(totalChain, shielded), lockbox)
      t1 == IF (~Truthy(transparent) \/ JsLeZero(transparent)) /\ IsFinite(totalChain)
               /\ IsFinite(inferred) /\ JsGtZero(inferred)
            THEN inferred
            ELSE transparent
  IN Coalesce(sanitizeNumber(t1), Num(0))

\* Variant of Shielded that leaves the orchard pool out
Shielded_SkipsOrchard(sprout, sapling, orchard) == JsAdd(sprout, sapling)

\* const shielded = sprout + sapling + orchard
Shielded(sprout, sapling, orchard) == JsAdd(JsAdd(sprout, sapling), orchard)

extractValuePools(info, circulatingSupply) ==
  LET vp == PoolRecords(info)
      transparent == find(vp, "transparent")
      sprout == find(vp, "sprout")
      sapling == find(vp, "sapling")
      orchard == find(vp, "orchard")
      lockbox == find(vp, "lockbox")
  IN IF transparent.threw \/ sprout.threw \/ sapling.threw \/ orchard.threw
        \/ lockbox.threw
     THEN Throw
     ELSE LET shielded == Shielded(sprout.value, sapling.value, orchard.value)
              totalFromInfo ==
                JsAdd(JsAdd(transparent.value, shielded), lockbox.value)
              totalChain == TotalChain(circulatingSupply, totalFromInfo)
          IN Return([transparent |->
                       InferTransparent(transparent.value, shielded,
                                        lockbox.value, totalChain),
                     sprout |-> sprout.value,
                     sapling |-> sapling.value,
                     orchard |-> orchard.value,
                     lockbox |-> lockbox.value,
                     shielded |-> shielded,
                     totalChain |-> totalChain])

(***************************************************************************)
(* The /api/status handler's body once Promise.all has resolved            *)
(***************************************************************************)
\* arr[0] of an array, o?.zcash of anything else
PriceEntry(priceData) ==
  IF priceData.t = "array"
  THEN Coalesce(IF Len(priceData.items) >= 1 THEN priceData.items[1] ELSE Undef,
                Null)
  ELSE Coalesce(OptGet(priceData, "zcash"), Null)

\* infoData?.blocks ?? infoData?.blockchain?.blocks ?? infoData?.estimatedheight
\* ?? null (not passed through sanitizeNumber)
Height(infoData) ==
  Coalesce(Coalesce(Coalesce(OptGet(infoData, "blocks"),
                             OptGet(OptGet(infoData, "blockchain"), "blocks")),
                    OptGet(infoData, "estimatedheight")),
           Null)

MempoolSize(mempoolData) ==
  IF mempoolData.t = "array" THEN Num(Len(mempoolData.items))
  ELSE IF mempoolData.t = "object"
  THEN Coalesce(Coalesce(OptGet(mempoolData, "size"),
                         OptGet(mempoolData, "length")),
                Num(0))
  ELSE Num(0)

\* res.json(body): the body as JSON.stringify writes it and the client reads
\* it back. NaN and the infinities are written as null, a property whose
\* value is undefined is left out, an undefined array element is written null
RECURSIVE resJson(_)
resJson(body) ==
  CASE body.t \in {"NaN", "Infinity", "-Infinity"} -> Null
    [] body.t = "array" ->
         Arr([i \in 1..Len(body.items) |->
                IF body.items[i] = Undef THEN Null ELSE resJson(body.items[i])])
    [] body.t = "object" ->
         Obj([k \in {f \in DOMAIN body.fields : body.fields[f] # Undef} |->
                resJson(body.fields[k])])
    [] OTHER -> body

\* An HTTP response of the handler
Response(status, body) == [status |-> status, body |-> body]
NoResponse == [status |-> 0]
UpstreamFailed == Response(500, resJson(Obj([error |-> Str("upstream_failed")])))

\* Lines 121-173: the snapshot object handed to res.json, or the exception
\* extractValuePools raised
BuildSnapshot(priceData, infoData, mempoolData, t) ==
  LET priceEntry == PriceEntry(priceData)
      circulatingSupply ==
        sanitizeNumber(Coalesce(OptGet(priceEntry, "circulating_supply"), Null))
      pools == extractValuePools(infoData, circulatingSupply)
  IN IF pools.threw THEN Throw
     ELSE Return(Obj(
       [timestamp |-> Num(t),
        priceUsd |->
          sanitizeNumber(Coalesce(OptGet(priceEntry, "current_price"),
                                  OptGet(priceEntry, "usd"))),
        priceChange24h |->
          sanitizeNumber(Coalesce(OptGet(priceEntry, "price_change_percentage_24h"),
                                  OptGet(priceEntry, "usd_24h_change"))),
        marketCapUsd |->
          sanitizeNumber(Coalesce(OptGet(priceEntry, "market_cap"),
                                  OptGet(priceEntry, "usd_market_cap"))),
        marketCapChange24h |->
          sanitizeNumber(Coalesce(OptGet(priceEntry,
                                         "market_cap_change_percentage_24h"),
                                  Null)),
        marketCapChangeUsd |->
          sanitizeNumber(Coalesce(OptGet(priceEntry, "market_cap_change_24h"),
                                  Null)),
        circulatingSupply |-> circulatingSupply,
        height |-> Height(infoData),
        mempoolSize |-> MempoolSize(mempoolData),
        valuePools |-> Obj(pools.value)]))

\* The try block after the await, and the catch block around it
StatusResponse(priceData, infoData, mempoolData, t) ==
  LET snapshot == BuildSnapshot(priceData, infoData, mempoolData, t)
  IN IF snapshot.threw THEN UpstreamFailed
     ELSE Response(200, resJson(snapshot.value))

(***************************************************************************)
(* Bounds and the upstreams' response bodies                               *)
(***************************************************************************)
MaxReq == 2
MaxCalls == 4
MaxTime == 3
MaxTTL == 1

\* res.data of the price upstream: an empty body (which JSON.parse rejects,
\* so that getJSON returns the empty string) and the two documented shapes
PriceBodies ==
  {Str(""),
   Arr(<<Obj([current_price |-> Num(7), circulating_supply |-> Num(20)])>>),
   Obj([zcash |-> Obj([usd |-> Num(8)])])}

\* res.data of the info upstream: a well-formed payload and one whose
\* valuePools list holds a null entry
InfoBodies ==
  {Obj([blocks |-> Num(5),
        valuePools |-> Arr(<<Obj([id |-> Str("sprout"), chainValue |-> Num(1)]),
                             Obj([id |-> Str("lockbox"), chainValue |-> Num(4)])>>)]),
   Obj([blocks |-> Num(5), valuePools |-> Arr(<<Null>>)])}

\* res.data of the mempool upstream
MempoolBodies ==
  {Arr(<<Str("tx1"), Str("tx2")>>)}

(***************************************************************************)
(* State                                                                   *)
(***************************************************************************)
VARIABLES
  now,         \* Date.now()
  ttl,         \* PRICE_CACHE_TTL_MS, read once from the environment
  priceCache,  \* the priceCache object: data, fetchedAt, promise
  fetches,     \* the fetchPromise chains created so far, in creation order
  req,         \* the /api/status requests: the handler's locals and its response
  calls,       \* direct calls of getCachedPriceData(): the promise each returned
  rcInput,     \* arguments of a direct call of extractValuePools
  rcOutput     \* its outcome

vars == <<now, ttl, priceCache, fetches, req, calls, rcInput, rcOutput>>

Requests == 1..MaxReq
Callers == 1..MaxCalls

\* A promise a handler holds: Promise.resolve(v), or the k-th fetchPromise
Resolved(v) == [kind |-> "resolved", value |-> v, id |-> 0]
FetchRef(k) == [kind |-> "fetch", value |-> Undef, id |-> k]
NoPromise == [kind |-> "none", value |-> Undef, id |-> 0]

\* A fetchPromise chain: its state and settled value, and for the record the
\* outcome of its upstream request
PendingFetch == [state |-> "pending", value |-> Undef, upstream |-> "pending"]

EmptyCache == [data |-> Null, fetchedAt |-> 0, promise |-> 0]

\* A request that has not arrived yet
IdleRequest ==
  [pc |-> "idle", issued |-> FALSE, price |-> NoPromise,
   info |-> "idle", infoData |-> Undef,
   mempool |-> "idle", mempoolData |-> Undef,
   response |-> NoResponse, sent |-> 0]

\* A direct call that has not been made yet
IdleCaller == [pc |-> "idle", at |-> 0, issued |-> FALSE, price |-> NoPromise]

NoCall == [threw |-> FALSE, value |-> Undef, done |-> FALSE]

(***************************************************************************)
(* getCachedPriceData                                                      *)
(***************************************************************************)
\* Variant of IsFresh with the TTL boundary excluded
IsFresh_BoundaryExcluded(c, t, ttlMs) == Truthy(c.data) /\ t - c.fetchedAt < ttlMs

\* Line 46: the stored value is served when it is truthy and not older than TTL
IsFresh(c, t, ttlMs) == Truthy(c.data) /\ t - c.fetchedAt <= ttlMs

\* Variant of getCachedPriceData without the test of the in-flight marker
getCachedPriceData_NoSingleFlight(c, fs, t, ttlMs) ==
  IF IsFresh(c, t, ttlMs)
  THEN [cache |-> c, fetches |-> fs, ret |-> Resolved(c.data), issued |-> FALSE]
  ELSE [cache |-> [c EXCEPT !.promise = Len(fs) + 1],
        fetches |-> Append(fs, PendingFetch),
        ret |-> FetchRef(Len(fs) + 1), issued |-> TRUE]

\* Variant of getCachedPriceData that answers a call made during a refresh
\* with the stored value instead of the shared promise
getCachedPriceData_ServeStored(c, fs, t, ttlMs) ==
  IF IsFresh(c, t, ttlMs) \/ c.promise # 0
  THEN [cache |-> c, fetches |-> fs, ret |-> Resolved(c.data), issued |-> FALSE]
  ELSE [cache |-> [c EXCEPT !.promise = Len(fs) + 1],
        fetches |-> Append(fs, PendingFetch),
        ret |-> FetchRef(Len(fs) + 1), issued |-> TRUE]

\* The call at time t: the cache and the fetchPromise list after it, the
\* promise it returns, and whether it issued an upstream request
getCachedPriceData(c, fs, t, ttlMs) ==
  IF IsFresh(c, t, ttlMs)
  THEN [cache |-> c, fetches |-> fs, ret |-> Resolved(c.data), issued |-> FALSE]
  ELSE IF c.promise # 0
  THEN [cache |-> c, fetches |-> fs, ret |-> FetchRef(c.promise), issued |-> FALSE]
  ELSE [cache |-> [c EXCEPT !.promise = Len(fs) + 1],
        fetches |-> Append(fs, PendingFetch),
        ret |-> FetchRef(Len(fs) + 1), issued |-> TRUE]

\* Variant of OnFetchFulfilled that stores the value without its timestamp
OnFetchFulfilled_KeepsTimestamp(c, fresh, t) == [c EXCEPT !.data = fresh]

\* .then((fresh) => { data = fresh; fetchedAt = Date.now(); return fresh; })
OnFetchFulfilled(c, fresh, t) == [c EXCEPT !.data = fresh, !.fetchedAt = t]

\* .catch((err) => { if (data) return data; throw err; }): how the chain goes on
OnFetchRejected(c) ==
  IF Truthy(c.data) THEN Return(c.data) ELSE Throw

\* Variant of OnFetchFinally without the .finally handler: the marker stays
OnFetchFinally_KeepsMarker(c) == c

\* .finally(() => { promise = null; })
OnFetchFinally(c) == [c EXCEPT !.promise = 0]

(***************************************************************************)
(* The /api/status handler                                                 *)
(***************************************************************************)
\* State and value of the promise a handler holds
PromiseState(p, fs) ==
  IF p.kind = "fetch"
  THEN [state |-> fs[p.id].state, value |-> fs[p.id].value]
  ELSE [state |-> "fulfilled", value |-> p.value]

\* The calls of request q that have not settled
PendingCalls(q, fs) ==
  (IF PromiseState(q.price, fs).state = "pending" THEN {"price"} ELSE {})
  \cup (IF q.info = "pending" THEN {"info"} ELSE {})
  \cup (IF q.mempool = "pending" THEN {"mempool"} ELSE {})

\* Variant of Resume in which a failed info request is replaced by null, as
\* the mempool request's is, instead of rejecting Promise.all
Resume_InfoBestEffort(q, fs, t) ==
  LET p == PromiseState(q.price, fs)
      send(r) == [q EXCEPT !.pc = "done", !.response = r, !.sent = q.sent + 1]
  IN IF q.pc # "waiting" THEN q
     ELSE IF p.state = "rejected" THEN send(UpstreamFailed)
     ELSE IF p.state = "fulfilled" /\ q.info \in {"ok", "fail"}
             /\ q.mempool \in {"ok", "fail"}
     THEN send(StatusResponse(p.value, IF q.info = "ok" THEN q.infoData ELSE Null,
                              q.mempoolData, t))
     ELSE q

\* Variant of Resume that does not wait for the mempool request: it answers
\* as soon as price and info are there, with the mempool data it has by then
Resume_AnswersBeforeMempool(q, fs, t) ==
  LET p == PromiseState(q.price, fs)
      send(r) == [q EXCEPT !.pc = "done", !.response = r, !.sent = q.sent + 1]
  IN IF q.pc # "waiting" THEN q
     ELSE IF p.state = "rejected" \/ q.info = "fail" THEN send(UpstreamFailed)
     ELSE IF p.state = "fulfilled" /\ q.info = "ok"
     THEN send(StatusResponse(p.value, q.infoData,
                              IF q.mempool = "ok" THEN q.mempoolData ELSE Null, t))
     ELSE q

\* await Promise.all([...]) and what follows it: the handler resumes as soon as
\* one of price and info has rejected (catch block), or when all three have
\* settled (the mempool rejection having been replaced by null)
Resume(q, fs, t) ==
  LET p == PromiseState(q.price, fs)
      send(r) == [q EXCEPT !.pc = "done", !.response = r, !.sent = q.sent + 1]
  IN IF q.pc # "waiting" THEN q
     ELSE IF p.state = "rejected" \/ q.info = "fail" THEN send(UpstreamFailed)
     ELSE IF p.state = "fulfilled" /\ q.info = "ok" /\ q.mempool \in {"ok", "fail"}
     THEN send(StatusResponse(p.value, q.infoData, q.mempoolData, t))
     ELSE q

ResumeAll(rq, fs, t) == [r \in Requests |-> Resume(rq[r], fs, t)]

(***************************************************************************)
(* getJSON                                                                 *)
(***************************************************************************)
\* What axios.get came back with: a response carrying res.data, or a failure
\* (transport error, timeout, non-2xx status)
HttpOk(data) == [ok |-> TRUE, data |-> data]
HttpFailed == [ok |-> FALSE, data |-> Undef]

\* getJSON's outcome: the normalized body, or the Error it throws
getJSON(res) == IF res.ok THEN Return(normalizeJSON(res.data)) ELSE Throw

(***************************************************************************)
(* Actions                                                                 *)
(***************************************************************************)
\* A fetchPromise chain settled with outcome o
SettledFetch(o, upstream) ==
  [state |-> IF o.threw THEN "rejected" ELSE "fulfilled",
   value |-> IF o.threw THEN Undef ELSE o.value,
   upstream |-> upstream]

\* Time passes
Tick ==
  /\ now < MaxTime
  /\ now' = now + 1
  /\ UNCHANGED <<ttl, priceCache, fetches, req, calls, rcInput, rcOutput>>

\* The r-th GET /api/status arrives: the handler runs up to its await, calling
\* getCachedPriceData() and starting the info and mempool requests
StatusRequest(r) ==
  /\ req[r].pc = "idle"
  /\ IF r = 1 THEN TRUE ELSE req[r - 1].pc # "idle"
  /\ LET g == getCachedPriceData(priceCache, fetches, now, ttl)
     IN /\ priceCache' = g.cache
        /\ fetches' = g.fetches
        /\ req' = [req EXCEPT ![r] =
                     [IdleRequest EXCEPT
                        !.pc = "waiting", !.issued = g.issued,
                        !.price = g.ret,
                        !.info = "pending", !.mempool = "pending"]]
  /\ UNCHANGED <<now, ttl, calls, rcInput, rcOutput>>

\* The c-th direct call getCachedPriceData() is made (by a caller that only
\* keeps the returned promise)
GetCall(c) ==
  /\ calls[c].pc = "idle"
  /\ IF c = 1 THEN TRUE ELSE calls[c - 1].pc # "idle"
  /\ LET g == getCachedPriceData(priceCache, fetches, now, ttl)
     IN /\ priceCache' = g.cache
        /\ fetches' = g.fetches
        /\ calls' = [calls EXCEPT ![c] =
                       [pc |-> "called", at |-> now, issued |-> g.issued,
                        price |-> g.ret]]
  /\ UNCHANGED <<now, ttl, req, rcInput, rcOutput>>

\* The price upstream answers fetch k: the .then and .finally handlers run and
\* every handler awaiting the promise resumes, before any other event
PriceFetchSucceeds(k, body) ==
  /\ k \in 1..Len(fetches)
  /\ fetches[k].upstream = "pending"
  /\ LET o == getJSON(HttpOk(body))
         fs == [fetches EXCEPT ![k] = SettledFetch(o, "ok")]
     IN /\ priceCache' = OnFetchFinally(OnFetchFulfilled(priceCache, o.value, now))
        /\ fetches' = fs
        /\ req' = ResumeAll(req, fs, now)
  /\ UNCHANGED <<now, ttl, calls, rcInput, rcOutput>>

\* The price upstream fails fetch k: the .catch and .finally handlers run and
\* every handler awaiting the promise resumes
PriceFetchFails(k) ==
  /\ k \in 1..Len(fetches)
  /\ fetches[k].upstream = "pending"
  /\ LET o == getJSON(HttpFailed)
         fs == [fetches EXCEPT ![k] =
                  SettledFetch(OnFetchRejected(priceCache), "fail")]
     IN /\ o.threw
        /\ priceCache' = OnFetchFinally(priceCache)
        /\ fetches' = fs
        /\ req' = ResumeAll(req, fs, now)
  /\ UNCHANGED <<now, ttl, calls, rcInput, rcOutput>>

\* getJSON(INFO_URL) of request r settles
InfoSucceeds(r, body) ==
  /\ req[r].info = "pending"
  /\ LET o == getJSON(HttpOk(body))
     IN req' = ResumeAll([req EXCEPT ![r].info = "ok",
                                     ![r].infoData = o.value],
                         fetches, now)
  /\ UNCHANGED <<now, ttl, priceCache, fetches, calls, rcInput, rcOutput>>

InfoFails(r) ==
  /\ req[r].info = "pending"
  /\ getJSON(HttpFailed).threw
  /\ req' = ResumeAll([req EXCEPT ![r].info = "fail"], fetches, now)
  /\ UNCHANGED <<now, ttl, priceCache, fetches, calls, rcInput, rcOutput>>

\* getJSON(MEMPOOL_URL, ...).catch(() => null) of request r settles
MempoolSucceeds(r, body) ==
  /\ req[r].mempool = "pending"
  /\ LET o == getJSON(HttpOk(body))
     IN req' = ResumeAll([req EXCEPT ![r].mempool = "ok",
                                     ![r].mempoolData = o.value],
                         fetches, now)
  /\ UNCHANGED <<now, ttl, priceCache, fetches, calls, rcInput, rcOutput>>

MempoolFails(r) ==
  /\ req[r].mempool = "pending"
  /\ getJSON(HttpFailed).threw
  /\ req' = ResumeAll([req EXCEPT ![r].mempool = "fail",
                                  ![r].mempoolData = Null],
                      fetches, now)
  /\ UNCHANGED <<now, ttl, priceCache, fetches, calls, rcInput, rcOutput>>

NoInput == [info |-> Undef, circulatingSupply |-> Undef]

\* The server after start-up, configured with the largest TTL considered
Init ==
  /\ now = 1
  /\ ttl = MaxTTL
  /\ priceCache = EmptyCache
  /\ fetches = <<>>
  /\ req = [r \in Requests |-> IdleRequest]
  /\ calls = [c \in Callers |-> IdleCaller]
  /\ rcInput = NoInput
  /\ rcOutput = NoCall

Next ==
  \/ Tick
  \/ \E r \in Requests : StatusRequest(r)
  \/ \E k \in 1..Len(fetches), body \in PriceBodies : PriceFetchSucceeds(k, body)
  \/ \E k \in 1..Len(fetches) : PriceFetchFails(k)
  \/ \E r \in Requests, body \in InfoBodies : InfoSucceeds(r, body)
  \/ \E r \in Requests : InfoFails(r)
  \/ \E r \in Requests, body \in MempoolBodies : MempoolSucceeds(r, body)
  \/ \E r \in Requests : MempoolFails(r)

Spec == Init /\ [][Next]_vars

\* The price cache driven by direct calls of getCachedPriceData(), under
\* every TTL from 0 to MaxTTL
InitCache ==
  /\ now = 1
  /\ ttl \in 0..MaxTTL
  /\ priceCache = EmptyCache
  /\ fetches = <<>>
  /\ req = [r \in Requests |-> IdleRequest]
  /\ calls = [c \in Callers |-> IdleCaller]
  /\ rcInput = NoInput
  /\ rcOutput = NoCall

NextCache ==
  \/ Tick
  \/ \E c \in Callers : GetCall(c)
  \/ \E k \in 1..Len(fetches), body \in PriceBodies : PriceFetchSucceeds(k, body)
  \/ \E k \in 1..Len(fetches) : PriceFetchFails(k)

SpecCache == InitCache /\ [][NextCache]_vars

\* The price cache over an upstream that may also answer 200 with the JSON
\* text null, which normalizeJSON parses into null
PriceBodiesWithNull == PriceBodies \cup {Str("null")}

NextCacheWithNull ==
  \/ Tick
  \/ \E c \in Callers : GetCall(c)
  \/ \E k \in 1..Len(fetches), body \in PriceBodiesWithNull :
       PriceFetchSucceeds(k, body)
  \/ \E k \in 1..Len(fetches) : PriceFetchFails(k)

SpecCacheWithNull == InitCache /\ [][NextCacheWithNull]_vars

(***************************************************************************)
(* The server with upstreams that always answer                            *)
(***************************************************************************)
\* The upstream request of fetch k completes: axios resolves, or rejects on a
\* transport error, a non-2xx status or its timeout
PriceFetchSettles(k) ==
  \/ \E body \in PriceBodies : PriceFetchSucceeds(k, body)
  \/ PriceFetchFails(k)

InfoSettles(r) ==
  \/ \E body \in InfoBodies : InfoSucceeds(r, body)
  \/ InfoFails(r)

MempoolSettles(r) ==
  \/ \E body \in MempoolBodies : MempoolSucceeds(r, body)
  \/ MempoolFails(r)

\* The fetchPromise chains whose upstream request has not completed
PendingUpstream == {k \in 1..Len(fetches) : fetches[k].upstream = "pending"}

\* The server's events within one instant: requests arrive and upstream
\* calls complete; the clock, which decides no call's completion, stands still
NextLive ==
  \/ \E r \in Requests : StatusRequest(r)
  \/ \E k \in 1..Len(fetches) : PriceFetchSettles(k)
  \/ \E r \in Requests : InfoSettles(r)
  \/ \E r \in Requests : MempoolSettles(r)

\* Requests and completions in every order, with no assumption that a call
\* completes
SpecEvents == Init /\ [][NextLive]_vars

\* Every axios.get is bounded by its timeout (15 s by default), so no call
\* that was started stays pending for ever. This is the weak fairness of
\* PriceFetchSettles(k), InfoSettles(r) and MempoolSettles(r), each of which
\* is enabled exactly while its call is pending and ends that; it is stated
\* on the calls' state, which spares evaluating ENABLED of the handler's body
SpecLive ==
  /\ Init
  /\ [][NextLive]_vars
  /\ \A k \in Requests : []<>(k \notin PendingUpstream)
  /\ \A r \in Requests : []<>(req[r].info # "pending")
  /\ \A r \in Requests : []<>(req[r].mempool # "pending")

(***************************************************************************)
(* The server when a price fetch outlasts the request that started it      *)
(***************************************************************************)
\* Request r's cache get started the k-th price fetch
StartedBy(r, k) == req[r].issued /\ req[r].price = FetchRef(k)

\* The request that started fetch k has been answered
StarterAnswered(k) == \A r \in Requests : StartedBy(r, k) => req[r].pc = "done"

\* The orders of events in which the price upstream is the slow one: a price
\* fetch completes only after the request that started it has been answered,
\* which, the price promise being pending, can only be the 500 sent on the
\* failure of its info fetch
NextOutlast ==
  \/ Tick
  \/ \E r \in Requests : StatusRequest(r)
  \/ \E k \in 1..Len(fetches), body \in PriceBodies :
       StarterAnswered(k) /\ PriceFetchSucceeds(k, body)
  \/ \E k \in 1..Len(fetches) : StarterAnswered(k) /\ PriceFetchFails(k)
  \/ \E r \in Requests, body \in InfoBodies : InfoSucceeds(r, body)
  \/ \E r \in Requests : InfoFails(r)
  \/ \E r \in Requests, body \in MempoolBodies : MempoolSucceeds(r, body)
  \/ \E r \in Requests : MempoolFails(r)

SpecOutlast == Init /\ [][NextOutlast]_vars

(***************************************************************************)
(* extractValuePools called directly, on bounded sets of arguments         *)
(***************************************************************************)
MaxPool == 1
MaxSupply == 4

PoolIds == <<"transparent", "sprout", "sapling", "orchard", "lockbox">>

\* Marks a pool that has no record in the list (not a JavaScript value)
Absent == [t |-> "absent"]

\* chainValue of each pool's record, when it has one: numbers, null, text that
\* Number() reads as NaN or as a number, and 1e999, which JSON.parse reads as
\* Infinity
ChainValues ==
  [transparent : {Absent, Null, Str("abc"), PosInf} \cup {Num(n) : n \in -1..MaxPool},
   sprout : {Absent, Str("abc")} \cup {Num(n) : n \in 0..MaxPool},
   sapling : {Absent, PosInf} \cup {Num(n) : n \in 0..MaxPool},
   orchard : {NegInf} \cup {Num(n) : n \in 0..MaxPool},
   lockbox : {Absent, Str("7")} \cup {Num(n) : n \in 0..MaxPool}]

PoolRecord(id, chainValue) == Obj([id |-> Str(id), chainValue |-> chainValue])

\* The records of the pools that have one, in the order of PoolIds
RecordList(cv) ==
  LET all == [i \in 1..Len(PoolIds) |->
                IF cv[PoolIds[i]] = Absent THEN Absent
                ELSE PoolRecord(PoolIds[i], cv[PoolIds[i]])]
  IN SelectSeq(all, LAMBDA e : e # Absent)

\* The valuePools lists built around these records: as they are, behind
\* entries that are no pool records, followed by a second sprout record, and
\* followed by a null entry
ValuePoolLists(cv) ==
  {RecordList(cv),
   <<Num(9), Str("x"), Obj([chainValue |-> Num(9)]), Arr(<<>>)>> \o RecordList(cv),
   RecordList(cv) \o <<PoolRecord("sprout", Num(9))>>,
   RecordList(cv) \o <<Null>>}

\* info payloads without a valuePools list
ListlessInfos ==
  {Null, Undef, Str("oops"), Obj(<<>>), Obj([valuePools |-> Null]),
   Obj([valuePools |-> Str("x")]),
   Obj([valuePools |-> Obj([transparent |-> Num(5)])])}

InfoPayloads ==
  {Obj([blocks |-> Num(5), valuePools |-> Arr(l)]) :
     l \in UNION {ValuePoolLists(cv) : cv \in ChainValues}}
  \cup ListlessInfos

\* circulatingSupply: what the handler passes (a finite number or null) and
\* what any other caller may pass
Supplies ==
  {Null, Undef, NaN, PosInf, Str("20")} \cup {Num(n) : n \in -1..MaxSupply}

\* The two calls the documentation works out
InferenceExample ==
  [info |-> Obj([valuePools |-> Arr(<<PoolRecord("transparent", Num(0)),
                                      PoolRecord("sprout", Num(1)),
                                      PoolRecord("sapling", Num(2)),
                                      PoolRecord("orchard", Num(3)),
                                      PoolRecord("lockbox", Num(4))>>)]),
   circulatingSupply |-> Num(20)]
NonInferenceExample ==
  [info |-> Obj([valuePools |-> Arr(<<PoolRecord("transparent", Num(100)),
                                      PoolRecord("sprout", Num(1)),
                                      PoolRecord("sapling", Num(2)),
                                      PoolRecord("orchard", Num(3)),
                                      PoolRecord("lockbox", Num(4))>>)]),
   circulatingSupply |-> Null]

PoolInputs ==
  [info : InfoPayloads, circulatingSupply : Supplies]
  \cup {InferenceExample, NonInferenceExample}

\* extractValuePools(rcInput.info, rcInput.circulatingSupply) is called
Reconcile ==
  /\ ~rcOutput.done
  /\ LET o == extractValuePools(rcInput.info, rcInput.circulatingSupply)
     IN rcOutput' = [threw |-> o.threw,
                     value |-> IF o.threw THEN Undef ELSE o.value,
                     done |-> TRUE]
  /\ UNCHANGED <<now, ttl, priceCache, fetches, req, calls, rcInput>>

InitPools ==
  /\ now = 1
  /\ ttl = 0
  /\ priceCache = EmptyCache
  /\ fetches = <<>>
  /\ req = [r \in Requests |-> IdleRequest]
  /\ calls = [c \in Callers |-> IdleCaller]
  /\ rcInput \in PoolInputs
  /\ rcOutput = NoCall

NextPools == Reconcile

SpecPools == InitPools /\ [][NextPools]_vars

(***************************************************************************)
(* One status request over upstream payloads of many shapes                *)
(***************************************************************************)
\* res.data of the price upstream: the two documented shapes, complete and
\* with fields missing, as text or out of range (1e999 is read as Infinity);
\* an empty list, a body that is no JSON, and the JSON text null
ShapedPriceBodies ==
  {Arr(<<Obj([current_price |-> Num(7), price_change_percentage_24h |-> Num(1),
              market_cap |-> Num(7), market_cap_change_percentage_24h |-> Num(1),
              market_cap_change_24h |-> Num(1), circulating_supply |-> Num(20)])>>),
   Arr(<<Obj([current_price |-> Str("7"), price_change_percentage_24h |-> Str("abc"),
              market_cap |-> PosInf, market_cap_change_percentage_24h |-> Null,
              market_cap_change_24h |-> Bool(TRUE),
              circulating_supply |-> Str("Infinity")])>>),
   Obj([zcash |-> Obj([usd |-> Num(8), usd_24h_change |-> NegInf,
                       usd_market_cap |-> Str("")])]),
   Obj([zcash |-> Str("abc")]),
   Arr(<<>>),
   Arr(<<Num(7)>>),
   Str("oops"),
   Str("null")}

\* res.data of the info upstream: the height under each of its three names,
\* as a number, as text and out of range; pool values as numbers, as text and
\* out of range; a payload without a list, the JSON text null, and a list
\* with a null entry
ShapedInfoBodies ==
  {Obj([blocks |-> Num(5),
        valuePools |-> Arr(<<PoolRecord("sprout", Num(1)),
                             PoolRecord("lockbox", Num(4))>>)]),
   Obj([blocks |-> Str("7"),
        valuePools |-> Arr(<<PoolRecord("transparent", Num(1))>>)]),
   Obj([blockchain |-> Obj([blocks |-> Num(5)]),
        valuePools |-> Arr(<<PoolRecord("sprout", Str("abc"))>>)]),
   Obj([estimatedheight |-> PosInf,
        valuePools |-> Arr(<<PoolRecord("orchard", PosInf)>>)]),
   Obj([blocks |-> Obj([tip |-> Num(5)]),
        valuePools |-> Arr(<<PoolRecord("lockbox", Str("7"))>>)]),
   Obj(<<>>),
   Str("null"),
   Obj([blocks |-> Num(5), valuePools |-> Arr(<<Null>>)])}

\* res.data of the mempool upstream: a list, an object with a size or a
\* length (a number, text, out of range), an empty object, a body that is no
\* JSON
ShapedMempoolBodies ==
  {Arr(<<Str("tx1"), Str("tx2")>>),
   Obj([size |-> Num(3)]),
   Obj([size |-> Str("big")]),
   Obj([length |-> PosInf]),
   Obj(<<>>),
   Str("oops")}

\* The first request after start-up, answered by upstreams of every shape
NextShaped ==
  \/ StatusRequest(1)
  \/ \E body \in ShapedPriceBodies : PriceFetchSucceeds(1, body)
  \/ PriceFetchFails(1)
  \/ \E body \in ShapedInfoBodies : InfoSucceeds(1, body)
  \/ InfoFails(1)
  \/ \E body \in ShapedMempoolBodies : MempoolSucceeds(1, body)
  \/ MempoolFails(1)

SpecShaped == Init /\ [][NextShaped]_vars

(***************************************************************************)
(* Properties of the price cache                                           *)
(***************************************************************************)
\* The entry is empty or older than TTL
Stale == priceCache.data = Null \/ now - priceCache.fetchedAt > ttl

\* This step is the c-th direct call of getCachedPriceData()
IsCall(c) == calls[c].pc = "idle" /\ calls'[c].pc = "called"

\* This step completes the upstream request of fetch k
IsSettle(k) ==
  /\ k \in PendingUpstream
  /\ Len(fetches') = Len(fetches)
  /\ fetches'[k].upstream # "pending"

\* The direct callers holding the k-th fetchPromise
Attached(k) == {c \in Callers : calls[c].price = FetchRef(k)}

\* C1: at every moment at most one upstream price request is in flight,
\* however many getCachedPriceData() calls are made while the entry is empty
\* or stale and however they interleave with completions and failures.
C1_AtMostOneInFlight == Cardinality(PendingUpstream) <= 1

\* C1 witness: after an earlier fetch has failed, a second fetch is in flight
\* and two callers wait on it.
C1_Witness ==
  \E k \in PendingUpstream :
    /\ \E j \in 1..Len(fetches) : fetches[j].upstream = "fail"
    /\ Cardinality(Attached(k)) >= 2

\* C2: a call made while the entry is stale starts a request only if none is
\* in flight and otherwise receives the promise of the request in flight, so
\* N calls before the fetch completes issue exactly one request; when the
\* fetch completes, every caller holding its promise receives its outcome:
\* the fetched value on success, the same settled promise for all on failure.
C2_SingleFlightShared ==
  /\ [][\A c \in Callers : IsCall(c) /\ Stale =>
          IF PendingUpstream = {}
          THEN /\ Len(fetches') = Len(fetches) + 1
               /\ calls'[c].price = FetchRef(Len(fetches'))
          ELSE /\ fetches' = fetches
               /\ \E k \in PendingUpstream : calls'[c].price = FetchRef(k)]_vars
  /\ [][\A k \in 1..Len(fetches) : IsSettle(k) =>
          \A c \in Attached(k) :
            LET got == PromiseState(calls'[c].price, fetches')
            IN /\ got.state # "pending"
               /\ fetches'[k].upstream = "ok" =>
                    got.state = "fulfilled" /\ got.value = priceCache'.data]_vars

\* C2 witness: three callers share the promise of one fetch, one of them
\* issued it, and it has been fulfilled by the upstream's answer.
C2_Witness ==
  \E k \in 1..Len(fetches) :
    /\ fetches[k].upstream = "ok"
    /\ Cardinality(Attached(k)) >= 3
    /\ Cardinality({c \in Attached(k) : calls[c].issued}) = 1

\* C3: while the cache holds a value stored at time t, a call at a time now
\* with now - t <= TTL returns that value and issues no upstream request,
\* whatever value the upstream returned.
C3_FreshHitNoRequest ==
  [][\A c \in Callers :
       IsCall(c) /\ priceCache.data # Null /\ now - priceCache.fetchedAt <= ttl =>
         /\ calls'[c].price = Resolved(priceCache.data)
         /\ fetches' = fetches]_vars

\* Upstream requests a direct call issued
Issued(c) == IF calls[c].issued THEN 1 ELSE 0

\* C4 as stated: from any cache state, two calls made within one TTL window
\* of each other cause exactly one upstream request in total.
C4_ExactlyOneRequest ==
  \A c \in Callers :
    c > 1 /\ calls[c].pc = "called" /\ calls[c].at - calls[c - 1].at <= ttl =>
      Issued(c - 1) + Issued(c) = 1

\* C4 amended: of two successive calls made within one TTL window of each
\* other, when the first starts a fetch the second starts none if that fetch
\* is still in flight or has succeeded with a truthy value (one request in
\* total) and starts another if it has failed or returned a falsy value (two
\* in total); when the first starts none, the two cause at most one.
C4_TwoCallsWithinTTL ==
  [][\A c \in Callers :
       c > 1 /\ IsCall(c) /\ now - calls[c - 1].at <= ttl =>
         IF calls[c - 1].issued
         THEN LET f == fetches[calls[c - 1].price.id]
              IN IF f.upstream = "pending" \/ (f.upstream = "ok" /\ Truthy(f.value))
                 THEN fetches' = fetches /\ ~calls'[c].issued
                 ELSE Len(fetches') = Len(fetches) + 1 /\ calls'[c].issued
         ELSE Len(fetches') <= Len(fetches) + 1]_vars

\* C4 witness: the first call started a fetch that succeeded, and the second
\* call, made later and exactly TTL after the first, was served from the cache.
C4_Witness ==
  \E c \in Callers :
    /\ c > 1 /\ calls[c].pc = "called" /\ calls[c - 1].issued
    /\ calls[c].at > calls[c - 1].at
    /\ calls[c].at - calls[c - 1].at = ttl
    /\ fetches[calls[c - 1].price.id].upstream = "ok"
    /\ ~calls[c].issued /\ calls[c].price.kind = "resolved"
    /\ Len(fetches) = 1

\* C5: when a fetch fails while the cache holds a value from an earlier
\* successful fetch, every caller attached to it receives the stored value,
\* value and fetchedAt stay as they were, no fetch is left in flight and the
\* next call starts a new fetch.
C5_FailureServesStored ==
  [][\A k \in 1..Len(fetches) :
       IsSettle(k) /\ fetches'[k].upstream = "fail" /\ priceCache.data # Null =>
         /\ \A c \in Attached(k) :
              PromiseState(calls'[c].price, fetches') =
                [state |-> "fulfilled", value |-> priceCache.data]
         /\ priceCache'.data = priceCache.data
         /\ priceCache'.fetchedAt = priceCache.fetchedAt
         /\ priceCache'.promise = 0
         /\ getCachedPriceData(priceCache', fetches', now', ttl').issued]_vars

\* C6: when a fetch fails while the cache has never stored a value, every
\* caller attached to it receives the failure and the cache stays empty with
\* no fetch in flight; getCachedPriceData() fails in no other situation.
C6_OnlyFirstFetchFails ==
  [][\A k \in 1..Len(fetches) :
       IsSettle(k) =>
         /\ fetches'[k].upstream = "fail" /\ priceCache.fetchedAt = 0 =>
              /\ \A c \in Attached(k) :
                   PromiseState(calls'[c].price, fetches').state = "rejected"
              /\ priceCache' = EmptyCache
         /\ fetches'[k].state = "rejected" =>
              fetches'[k].upstream = "fail" /\ priceCache.fetchedAt = 0]_vars

\* The cache holds a value that is older than TTL
HoldsExpired == priceCache.data # Null /\ now - priceCache.fetchedAt > ttl

\* C14 as stated: a call made while the cache holds an expired value and a
\* refresh is underway is served the expired value at once instead of waiting
\* for the refresh; a caller of a refresh that failed is served the expired
\* value, not an error.
C14_ServedExpiredValue ==
  /\ [][\A c \in Callers :
          IsCall(c) /\ HoldsExpired /\ PendingUpstream # {} =>
            calls'[c].price = Resolved(priceCache.data)]_vars
  /\ [][\A k \in 1..Len(fetches) :
          IsSettle(k) /\ fetches'[k].upstream = "fail" /\ HoldsExpired =>
            \A c \in Attached(k) :
              PromiseState(calls'[c].price, fetches') =
                [state |-> "fulfilled", value |-> priceCache.data]]_vars

\* C14 amended: a call made while the cache holds an expired value and a
\* refresh is underway starts no request and receives the pending promise of
\* that refresh, so it waits for the refresh to complete; it is then served
\* the refreshed value when the refresh succeeded, and when it failed the
\* expired value if that value is truthy and the failure if it is falsy.
C14_AttachedToRefresh ==
  /\ [][\A c \in Callers :
          IsCall(c) /\ HoldsExpired /\ PendingUpstream # {} =>
            /\ fetches' = fetches
            /\ \E k \in PendingUpstream : calls'[c].price = FetchRef(k)
            /\ PromiseState(calls'[c].price, fetches').state = "pending"]_vars
  /\ [][\A k \in 1..Len(fetches) :
          IsSettle(k) /\ HoldsExpired =>
            \A c \in Attached(k) :
              LET got == PromiseState(calls'[c].price, fetches')
              IN IF fetches'[k].upstream = "ok"
                 THEN /\ got = [state |-> "fulfilled", value |-> priceCache'.data]
                      /\ priceCache'.fetchedAt = now
                 ELSE IF Truthy(priceCache.data)
                 THEN got = [state |-> "fulfilled", value |-> priceCache.data]
                 ELSE got.state = "rejected"]_vars

\* C14 witness: after a first fetch stored a truthy value and that value
\* expired, a second fetch was started, a further caller attached to it
\* while it was in flight, and it failed: both were served the expired value.
C14_Witness ==
  \E k \in 2..Len(fetches) :
    /\ fetches[1].upstream = "ok" /\ Truthy(fetches[1].value)
    /\ priceCache.data = fetches[1].value
    /\ fetches[k].upstream = "fail"
    /\ \E c \in Attached(k) :
         /\ ~calls[c].issued
         /\ PromiseState(calls[c].price, fetches) =
              [state |-> "fulfilled", value |-> fetches[1].value]

\* C15: the stored value and fetchedAt are written only by the success
\* handler of the cache's own fetch, and together: a step changes either only
\* when a fetch succeeds, that step stores the fetched value and the current
\* time, every successful fetch does so, and until one has succeeded the value
\* is null and fetchedAt is 0; no failure, fresh hit or status request
\* changes either field.
C15_WrittenOnlyOnSuccess ==
  /\ []((\A k \in 1..Len(fetches) : fetches[k].upstream # "ok") =>
          priceCache.data = Null /\ priceCache.fetchedAt = 0)
  /\ [][\A k \in 1..Len(fetches) :
          IsSettle(k) /\ fetches'[k].upstream = "ok" =>
            /\ priceCache'.data = fetches'[k].value
            /\ priceCache'.fetchedAt = now]_vars
  /\ [][priceCache'.data # priceCache.data
          \/ priceCache'.fetchedAt # priceCache.fetchedAt =>
            \E k \in 1..Len(fetches) :
              IsSettle(k) /\ fetches'[k].upstream = "ok"]_vars

\* C15 witness: the first fetch succeeded, a later call was a fresh hit, and
\* after the value expired a refresh failed: the cache still holds the first
\* fetch's value and an earlier time.
C15_Witness ==
  /\ Len(fetches) >= 2
  /\ fetches[1].upstream = "ok" /\ fetches[2].upstream = "fail"
  /\ \E c \in Callers : calls[c].price = Resolved(fetches[1].value)
  /\ priceCache.data = fetches[1].value
  /\ priceCache.fetchedAt > 0 /\ priceCache.fetchedAt < now

\* This step resolves the promise of the c-th direct call: the call is made
\* and returns a resolved promise, or the fetchPromise it holds is fulfilled
Resolves(c) ==
  /\ calls'[c].pc = "called"
  /\ PromiseState(calls'[c].price, fetches').state = "fulfilled"
  /\ calls[c].pc = "idle" \/ PromiseState(calls[c].price, fetches).state = "pending"

\* fetchedAt does not decrease in this step
FetchedAtKept == priceCache'.fetchedAt >= priceCache.fetchedAt

\* A stored value is not replaced by null in this step
StoredValueKept == priceCache.data # Null => priceCache'.data # Null

\* A get() that resolves in this step resolves to the value the cache holds
\* after the step, the newest one stored, which was stored no earlier than
\* the value the cache held when the get() was called
ResolvesToNewest ==
  \A c \in Callers :
    Resolves(c) =>
      PromiseState(calls'[c].price, fetches').value = priceCache'.data

\* C21: across every sequence of getCachedPriceData() calls, fetch successes
\* and fetch failures the cache never goes backwards: fetchedAt never
\* decreases, a stored value never reverts to null, and a get() never
\* resolves to a value older than the one stored when it was called.
C21_NeverGoesBackwards ==
  [][FetchedAtKept /\ StoredValueKept /\ ResolvesToNewest]_vars

(***************************************************************************)
(* Properties of the /api/status handler                                   *)
(***************************************************************************)
\* State and value of the price promise request r awaits
PriceOutcome(r) == PromiseState(req[r].price, fetches)

\* The status request r is answered with when its mempool call ends with m
StatusWithMempool(r, m) ==
  IF PriceOutcome(r).state = "rejected" \/ req[r].info = "fail" THEN 500
  ELSE StatusResponse(PriceOutcome(r).value, req[r].infoData, m, now).status

\* C7: the HTTP status of a status request is the same whether its mempool
\* call succeeds or fails, and when price and info succeed and the mempool
\* call fails the response is 200 with mempoolSize = 0.
C7_MempoolNeverChangesStatus ==
  \A r \in Requests :
    req[r].response # NoResponse =>
      /\ \A m \in {Null} \cup {normalizeJSON(b) : b \in MempoolBodies} :
           req[r].response.status = StatusWithMempool(r, m)
      /\ PriceOutcome(r).state = "fulfilled" /\ req[r].info = "ok"
           /\ req[r].mempool = "fail" =>
             /\ req[r].response.status = 200
             /\ OptGet(req[r].response.body, "mempoolSize") = Num(0)

\* C8: a status request whose info fetch failed, or whose price promise was
\* rejected, has been answered exactly once, with HTTP 500 and the body
\* {"error": "upstream_failed"} and nothing else.
C8_RequiredFailureGives500 ==
  \A r \in Requests :
    req[r].info = "fail" \/ PriceOutcome(r).state = "rejected" =>
      /\ req[r].response =
           [status |-> 500, body |-> Obj([error |-> Str("upstream_failed")])]
      /\ req[r].sent = 1

\* C8 witness: one request was answered 500 because its price promise was
\* rejected, another because its info fetch failed after its price promise
\* had been fulfilled.
C8_Witness ==
  \E r, q \in Requests :
    /\ PriceOutcome(r).state = "rejected" /\ req[r].response.status = 500
    /\ req[q].info = "fail" /\ PriceOutcome(q).state = "fulfilled"
    /\ req[q].response.status = 500

(***************************************************************************)
(* Properties of extractValuePools                                         *)
(***************************************************************************)
\* The call has returned a ValuePools record
Returned == rcOutput.done /\ ~rcOutput.threw

\* The transparent value read from the payload, before the inference rule
ExtractedTransparent == find(PoolRecords(rcInput.info), "transparent").value

\* C9: in every ValuePools record extractValuePools returns, shielded is
\* sprout + sapling + orchard of that record, also when transparent was
\* inferred (NaN and the infinities compared as values).
C9_ShieldedIsSum ==
  Returned =>
    rcOutput.value.shielded =
      JsAdd(JsAdd(rcOutput.value.sprout, rcOutput.value.sapling),
            rcOutput.value.orchard)

\* C9 witness: a call whose payload gives transparent 0 and three shielded
\* pools of 1 each, with a circulating supply from which transparent 1 was
\* inferred.
C9_Witness ==
  /\ Returned
  /\ ExtractedTransparent = Num(0)
  /\ rcOutput.value.transparent = Num(1)
  /\ rcOutput.value.sprout = Num(1) /\ rcOutput.value.sapling = Num(1)
  /\ rcOutput.value.orchard = Num(1) /\ rcOutput.value.shielded = Num(3)

\* C10: when the extracted transparent value is zero, missing or negative,
\* totalChain is finite and totalChain - shielded - lockbox is finite and > 0,
\* the returned transparent is totalChain - shielded - lockbox; the call with
\* transparent=0, sprout=1, sapling=2, orchard=3, lockbox=4 and
\* circulatingSupply=20 returns transparent=10, shielded=6, totalChain=20.
C10_InferredTransparent ==
  Returned =>
    LET v == rcOutput.value
        inferred == JsSub(JsSub(v.totalChain, v.shielded), v.lockbox)
    IN /\ (ExtractedTransparent.t = "number" /\ ExtractedTransparent.v <= 0)
            /\ v.totalChain.t = "number"
            /\ inferred.t = "number" /\ inferred.v > 0
          => v.transparent = inferred
       /\ rcInput = InferenceExample =>
            /\ v.transparent = Num(10)
            /\ v.shielded = Num(6)
            /\ v.totalChain = Num(20)

\* C10 witness: the documented call has returned with the inferred value,
\* which differs from the extracted one.
C10_Witness ==
  /\ Returned
  /\ rcInput = InferenceExample
  /\ ExtractedTransparent = Num(0)
  /\ rcOutput.value.transparent = Num(10)

\* The sum of the extracted transparent value and the returned shielded and
\* lockbox values
ExtractedTotal ==
  JsAdd(JsAdd(ExtractedTransparent, rcOutput.value.shielded),
        rcOutput.value.lockbox)

\* The circulatingSupply argument is a finite number > 0
SupplyUsable ==
  rcInput.circulatingSupply.t = "number" /\ rcInput.circulatingSupply.v > 0

\* C11 as stated: totalChain is circulatingSupply when that is a finite
\* number > 0 and else the sum of the extracted transparent, shielded and
\* lockbox; an extracted transparent value > 0 is returned unchanged; the
\* documented call returns transparent=100, totalChain=110.
C11_PositiveTransparentKept ==
  Returned =>
    /\ rcOutput.value.totalChain =
         IF SupplyUsable THEN rcInput.circulatingSupply ELSE ExtractedTotal
    /\ JsGtZero(ExtractedTransparent) =>
         rcOutput.value.transparent = ExtractedTransparent
    /\ rcInput = NonInferenceExample =>
         rcOutput.value.transparent = Num(100)
         /\ rcOutput.value.totalChain = Num(110)

\* C11 amended: totalChain is circulatingSupply when that is a finite
\* number > 0 and else the sum of the extracted transparent, shielded and
\* lockbox; a finite extracted transparent value > 0 is returned unchanged and
\* an infinite one is returned as 0; the documented call returns
\* transparent=100, totalChain=110.
C11_FiniteTransparentKept ==
  Returned =>
    /\ rcOutput.value.totalChain =
         IF SupplyUsable THEN rcInput.circulatingSupply ELSE ExtractedTotal
    /\ ExtractedTransparent.t = "number" /\ ExtractedTransparent.v > 0 =>
         rcOutput.value.transparent = ExtractedTransparent
    /\ ExtractedTransparent = PosInf => rcOutput.value.transparent = Num(0)
    /\ rcInput = NonInferenceExample =>
         rcOutput.value.transparent = Num(100)
         /\ rcOutput.value.totalChain = Num(110)

\* C11 witness: the documented call has returned, with no usable supply, the
\* explicit transparent value and the total summed from the payload.
C11_Witness ==
  /\ Returned
  /\ rcInput = NonInferenceExample
  /\ ~SupplyUsable
  /\ ExtractedTransparent = Num(100)
  /\ rcOutput.value.transparent = Num(100)
  /\ rcOutput.value.totalChain = Num(110)

\* C12: extractValuePools returns a ValuePools record without raising an
\* exception for every info payload, also one without a valuePools list or
\* with malformed entries in it; so a status request whose price and info
\* fetches both succeeded is never answered 500.
C12_NeverThrows ==
  /\ rcOutput.done => ~rcOutput.threw
  /\ \A r \in Requests :
       PriceOutcome(r).state = "fulfilled" /\ req[r].info = "ok" =>
         req[r].response.status # 500

\* The numeric fields of a snapshot that may be null
NullableFields ==
  {"priceUsd", "priceChange24h", "marketCapUsd", "marketCapChange24h",
   "marketCapChangeUsd", "circulatingSupply", "height"}

\* The fields of valuePools
PoolFields ==
  {"transparent", "sprout", "sapling", "orchard", "lockbox", "shielded",
   "totalChain"}

\* The upstream field each price figure of the snapshot is read from
PriceSource(r, first, second) ==
  LET priceEntry == PriceEntry(PriceOutcome(r).value)
  IN Coalesce(OptGet(priceEntry, first), OptGet(priceEntry, second))

\* The upstream field is missing or is a number that is not finite
MissingOrNonFinite(v) == IsNullish(v) \/ (IsNumber(v) /\ ~IsFinite(v))

\* C13: in every snapshot sent with status 200 each numeric field is a finite
\* number or null, never NaN, Infinity, undefined or a string, whatever the
\* upstream payloads; mempoolSize and the fields of valuePools are finite
\* numbers; a missing or non-finite upstream field surfaces as null.
C13_SnapshotSanitized ==
  \A r \in Requests :
    req[r].response.status = 200 =>
      LET body == req[r].response.body
          field(k) == OptGet(body, k)
      IN /\ \A k \in NullableFields : field(k).t \in {"number", "null"}
         /\ field("mempoolSize").t = "number"
         /\ \A k \in PoolFields : OptGet(field("valuePools"), k).t = "number"
         /\ MissingOrNonFinite(PriceSource(r, "current_price", "usd")) =>
              field("priceUsd") = Null
         /\ MissingOrNonFinite(PriceSource(r, "market_cap", "usd_market_cap")) =>
              field("marketCapUsd") = Null
         /\ MissingOrNonFinite(Height(req[r].infoData)) => field("height") = Null

\* totalChain - shielded - lockbox of the returned record
InferredValue ==
  JsSub(JsSub(rcOutput.value.totalChain, rcOutput.value.shielded),
        rcOutput.value.lockbox)

\* C16: when the extracted transparent value is zero, missing or negative and
\* totalChain - shielded - lockbox is not a finite number > 0 (or totalChain
\* is not finite), the returned transparent is 0; the returned transparent is
\* never negative.
C16_NeverNegative ==
  Returned =>
    /\ (ExtractedTransparent.t = "number" /\ ExtractedTransparent.v <= 0)
         /\ ~(rcOutput.value.totalChain.t = "number"
              /\ InferredValue.t = "number" /\ InferredValue.v > 0)
       => rcOutput.value.transparent = Num(0)
    /\ ~(rcOutput.value.transparent.t = "number"
         /\ rcOutput.value.transparent.v < 0)

\* transparent + shielded + lockbox of the returned record
ReturnedSum ==
  JsAdd(JsAdd(rcOutput.value.transparent, rcOutput.value.shielded),
        rcOutput.value.lockbox)

\* The inference rule applied: the extracted transparent is zero, missing or
\* negative and totalChain - shielded - lockbox is a finite number > 0
InferenceApplied ==
  /\ ~Truthy(ExtractedTransparent) \/ JsLeZero(ExtractedTransparent)
  /\ rcOutput.value.totalChain.t = "number"
  /\ InferredValue.t = "number" /\ InferredValue.v > 0

StillPending(r) == PendingCalls(req[r], fetches)

\* A required call of request r has failed
RequiredFailed(r) == PriceOutcome(r).state = "rejected" \/ req[r].info = "fail"

\* C17 as stated: a status request that has been answered has none of its
\* three upstream calls pending, also when a required call failed early.
C17_NoResponseWhilePending ==
  \A r \in Requests : req[r].response # NoResponse => StillPending(r) = {}

\* C17 amended: a request is answered 200 only when none of its three calls
\* is pending; it is answered while calls are pending only with the 500 sent
\* in the step in which its price promise is rejected or its info fetch
\* fails; and while it waits, no required call has failed and some call is
\* pending.
C17_OnlyFailureAnswersEarly ==
  /\ [](\A r \in Requests :
          /\ req[r].response.status = 200 => StillPending(r) = {}
          /\ req[r].pc = "waiting" => ~RequiredFailed(r) /\ StillPending(r) # {})
  /\ [][\A r \in Requests :
          req[r].sent = 0 /\ req'[r].sent = 1
            /\ PendingCalls(req'[r], fetches') # {} =>
              /\ req'[r].response = UpstreamFailed
              /\ ~RequiredFailed(r)
              /\ PromiseState(req'[r].price, fetches').state = "rejected"
                 \/ req'[r].info = "fail"]_vars

\* C17 witness: a request was answered 500 on the failure of its info fetch
\* while its price fetch and its mempool fetch were both still pending.
C17_Witness ==
  \E r \in Requests :
    /\ req[r].response.status = 500
    /\ req[r].info = "fail"
    /\ StillPending(r) = {"price", "mempool"}

(***************************************************************************)
(* Progress                                                                *)
(***************************************************************************)
\* C18: with upstream calls that always complete, the in-flight marker a
\* price fetch sets is eventually cleared, whether the fetch succeeds or
\* fails, and every status request eventually has a response, 200 or 500,
\* and never a second one.
C18_EventuallyAnswered ==
  /\ \A k \in Requests : (priceCache.promise = k) ~> (priceCache.promise = 0)
  /\ \A r \in Requests :
       (req[r].pc = "waiting") ~>
         (req[r].sent = 1 /\ req[r].response.status \in {200, 500})
  /\ [][\A r \in Requests :
          req[r].sent = 1 =>
            req'[r].sent = 1 /\ req'[r].response = req[r].response]_vars

\* C18 witness: a first request was answered 500 after its price fetch
\* failed, a second one 200 after its own fetch succeeded, every call has
\* completed and the marker is clear.
C18_Witness ==
  /\ Len(fetches) = 2
  /\ fetches[1].upstream = "fail" /\ fetches[2].upstream = "ok"
  /\ req[1].response.status = 500 /\ req[2].response.status = 200
  /\ req[1].sent = 1 /\ req[2].sent = 1
  /\ StillPending(1) = {} /\ StillPending(2) = {}
  /\ priceCache.promise = 0

(***************************************************************************)
(* Upstream requests per status request                                    *)
(***************************************************************************)
\* This step is the arrival of status request r
Arrives(r) == req[r].pc = "idle" /\ req'[r].pc # "idle"

\* C19: a status request starts, in the step in which it arrives and before
\* it waits, one info request, one mempool request and its price cache get,
\* which starts a price request unless the cache is fresh or a fetch is in
\* flight; nothing else starts a price request; a call that has completed,
\* failed or not, is never started again; and a call's result reaches only
\* the request that made it.
C19_OneRequestEach ==
  /\ [][\A r \in Requests :
          /\ Arrives(r) =>
               /\ req'[r].pc = "waiting"
               /\ req'[r].info = "pending" /\ req'[r].mempool = "pending"
               /\ req'[r].price # NoPromise
               /\ Len(fetches') =
                    Len(fetches) + (IF ~Stale \/ PendingUpstream # {} THEN 0 ELSE 1)
          /\ req[r].info \in {"ok", "fail"} => req'[r].info = req[r].info
          /\ req[r].mempool \in {"ok", "fail"} => req'[r].mempool = req[r].mempool
          /\ req[r].pc # "idle" => req'[r].price = req[r].price
          /\ req'[r].info # req[r].info \/ req'[r].mempool # req[r].mempool =>
               \A q \in Requests \ {r} :
                 /\ req'[q].info = req[q].info
                 /\ req'[q].infoData = req[q].infoData
                 /\ req'[q].mempool = req[q].mempool
                 /\ req'[q].mempoolData = req[q].mempoolData]_vars
  /\ [][Len(fetches') # Len(fetches) => \E r \in Requests : Arrives(r)]_vars

\* Request r was answered 500 and its info fetch has failed
FailedOnInfo(r) == req[r].response = UpstreamFailed /\ req[r].info = "fail"

\* The request that started fetch k has been answered 500 on its info failure
Orphaned(k) == \E r \in Requests : StartedBy(r, k) /\ FailedOnInfo(r)

\* The cache holds the value fetch k stored: k succeeded and no later fetch did
HoldsValueOf(k) ==
  /\ fetches[k].upstream = "ok"
  /\ \A j \in (k + 1)..Len(fetches) : fetches[j].upstream # "ok"

\* C22: a price fetch started by a status request is independent of that
\* request's outcome. When the request has been answered 500 on its info
\* failure while the fetch was pending, the fetch stays in flight; when it
\* completes the in-flight marker is cleared, and on success its value and the
\* completion time are stored; and a status request arriving within TTL of
\* that time is served the stored value without a new upstream request.
\* (Under SpecOutlast a fetch whose starter was answered 500 was pending when
\* the 500 was sent.)
C22_FetchOutlivesRequest ==
  /\ [](\A k \in PendingUpstream :
          Orphaned(k) => priceCache.promise = k /\ fetches[k].state = "pending")
  /\ [][\A k \in 1..Len(fetches) :
          Orphaned(k) /\ IsSettle(k) =>
            /\ priceCache'.promise = 0
            /\ fetches'[k].upstream = "ok" =>
                 /\ priceCache'.data = fetches'[k].value
                 /\ priceCache'.fetchedAt = now]_vars
  /\ [][\A k \in 1..Len(fetches), q \in Requests :
          /\ Orphaned(k) /\ HoldsValueOf(k)
          /\ now - priceCache.fetchedAt <= ttl
          /\ Arrives(q)
          => /\ Len(fetches') = Len(fetches)
             /\ ~req'[q].issued
             /\ req'[q].price = Resolved(fetches[k].value)]_vars

====
